---- MODULE Spec2Model ----
(***************************************************************************)
(* Scroll-scrubbing preview of Veo-3-Studio.                               *)
(*                                                                         *)
(* Two programs are modelled:                                              *)
(*   - ScrollPreview (src/unnamed/part_000): the in-app React component.   *)
(*     One sampling run (extractFrames) is started by every execution of   *)
(*     the [videoUrl] effect; the [isReady] effect attaches the scroll and *)
(*     resize listeners.                                                   *)
(*   - the inline script of the exported HTML kit                          *)
(*     (src/components/VideoResult.tsx, handleDownloadHtmlKit).            *)
(*                                                                         *)
(* Numbers that are floating point in the source are exact rationals       *)
(* <<numerator, denominator>> here (denominator > 0).                      *)
(***************************************************************************)
EXTENDS Integers, Sequences, FiniteSets, TLC

\* ------------------------------------------------------------------ bounds
\* FRAME_COUNT is 100 in the source (part_000:19, F=100 in the kit); the
\* model scales the number of sampled frames down.
FRAME_COUNT == 2
\* Number of executions of the [videoUrl] effect (sampling runs) explored.
MaxRuns == 2
\* Longest frame list handed to the draw routine on its own.
MaxLen == 3
\* Frame and window widths and heights handed to the draw routine on its own
\* range over 1..MaxDim.
MaxDim == 2
\* Number of polls of the video generation operation explored.
MaxPolls == 2
\* Number of clicks on the GIF download controls explored.
MaxClicks == 2

\* ------------------------------------------------------------ environment
\* The video sources the component can be pointed at.  "live" stands for a
\* source whose duration is not finite (a stream, a MediaRecorder blob).
Urls == {"a", "b", "live"}
FiniteDuration(u) == u # "live"
Duration(u) == IF u = "a" THEN 10 ELSE 4
VideoWidth(u) == IF u = "a" THEN 4 ELSE IF u = "b" THEN 1 ELSE 1
VideoHeight(u) == IF u = "a" THEN 3 ELSE IF u = "b" THEN 2 ELSE 1

\* The window sizes explored: landscape and portrait.
WindowSizes == {[w |-> 2, h |-> 1], [w |-> 1, h |-> 2]}
\* A canvas element has this size until its width and height are assigned.
CanvasDefault == [w |-> 300, h |-> 150]

\* --------------------------------------------------------------- rationals
\* Math.floor of a rational.
RFloor(p) == p[1] \div p[2]

\* ------------------------------------------- IEEE-754 double arithmetic
\* Math.floor((i / n) * 100) is evaluated in binary64: the quotient is
\* rounded to 53 significant bits (nearest, ties to even), and so is the
\* product.  A number is a sequence of limbs of LimbBits bits, most
\* significant first, with a scale: it stands for
\* (the integer the limbs spell) / 2^scale.
MantissaBits == 53
LimbBits == 18

RECURSIVE Pow2(_)
Pow2(k) == IF k = 0 THEN 1 ELSE 2 * Pow2(k - 1)

LimbBase == Pow2(LimbBits)

\* Number of bits of a limb's value (0 for 0).
RECURSIVE BitLen(_)
BitLen(v) == IF v = 0 THEN 0 ELSE 1 + BitLen(v \div 2)

\* Number of significant bits of a limb sequence whose first limb is not 0.
LimbsBitLen(x) == (Len(x) - 1) * LimbBits + BitLen(x[1])

\* The limbs without leading zero limbs.
RECURSIVE StripZeros(_)
StripZeros(x) == IF x # << >> /\ x[1] = 0 THEN StripZeros(Tail(x)) ELSE x

\* x shifted right by k bits, 0 <= k < LimbBits (the low k bits are lost).
ShiftRight(x, k) ==
    [j \in 1..Len(x) |->
        (IF j = 1 THEN 0 ELSE (x[j - 1] % Pow2(k)) * Pow2(LimbBits - k))
        + x[j] \div Pow2(k)]

\* x + 1, for x below the capacity of its limbs.
LimbsInc(x) ==
    [j \in 1..Len(x) |->
        IF \A m \in (j + 1)..Len(x) : x[m] = LimbBase - 1
        THEN (x[j] + 1) % LimbBase ELSE x[j]]

\* Round to nearest, ties to even, to MantissaBits significant bits; sticky
\* says that the exact value has nonzero bits below those of x.
FloatRound(x, sticky) ==
    LET b == StripZeros(x.limbs)
        k == LimbsBitLen(b) - MantissaBits
    IN  IF k <= 0 THEN [limbs |-> b, scale |-> x.scale]
        ELSE LET low == b[Len(b)] % Pow2(k)
                 kept == ShiftRight(b, k)
                 half == low \div Pow2(k - 1) = 1
                 rest == sticky \/ low % Pow2(k - 1) # 0
                 up == half /\ (rest \/ kept[Len(kept)] % 2 = 1)
             IN  [limbs |-> IF up THEN LimbsInc(kept) ELSE kept,
                  scale |-> x.scale - k]

\* Number of zero bits of the binary fraction i/n (0 < i < n) before its
\* first one bit.
RECURSIVE LeadZeros(_, _)
LeadZeros(r, n) == IF 2 * r >= n THEN 0 ELSE 1 + LeadZeros(2 * r, n)

\* i / n for 0 < i < n: long division, one limb at a time, to three limbs
\* after the leading zeros, then rounded.
FloatDiv(i, n) ==
    LET z == LeadZeros(i, n)
        r0 == i * Pow2(z)
        l1 == (r0 * LimbBase) \div n
        r1 == (r0 * LimbBase) % n
        l2 == (r1 * LimbBase) \div n
        r2 == (r1 * LimbBase) % n
        l3 == (r2 * LimbBase) \div n
        r3 == (r2 * LimbBase) % n
    IN  FloatRound([limbs |-> <<l1, l2, l3>>, scale |-> z + 3 * LimbBits],
                   r3 # 0)

\* limbs * c + carry for a small integer c, with one more limb in front.
RECURSIVE MulCarry(_, _, _)
MulCarry(x, c, carry) ==
    IF x = << >> THEN <<carry>>
    ELSE LET t == x[Len(x)] * c + carry
         IN  MulCarry(SubSeq(x, 1, Len(x) - 1), c, t \div LimbBase)
             \o <<t % LimbBase>>

\* x * c for a small integer c, rounded.
FloatMul(x, c) ==
    FloatRound([limbs |-> MulCarry(x.limbs, c, 0), scale |-> x.scale], FALSE)

\* The integer spelled by a limb sequence (short sequences only).
RECURSIVE LimbsToInt(_)
LimbsToInt(x) ==
    IF x = << >> THEN 0
    ELSE LimbBase * LimbsToInt(SubSeq(x, 1, Len(x) - 1)) + x[Len(x)]

\* Math.floor of a non-negative number.
FloatFloor(x) ==
    LET whole == x.scale \div LimbBits
        part == x.scale % LimbBits
    IN  IF whole >= Len(x.limbs) THEN 0
        ELSE LimbsToInt(ShiftRight(SubSeq(x.limbs, 1, Len(x.limbs) - whole),
                                   part))

\* Math.floor((i / FRAME_COUNT) * 100) of onSeeked, for 0 <= i < n.
Progress(i, n) ==
    IF i = 0 THEN 0 ELSE FloatFloor(FloatMul(FloatDiv(i, n), 100))

\* The progress values of the iterations 0 .. FRAME_COUNT - 1.
FrameProgress == [i \in 0..(FRAME_COUNT - 1) |-> Progress(i, FRAME_COUNT)]

\* ------------------------------------------------------------------- state
VARIABLES
    \* ScrollPreview
    mounted,          \* the component is mounted
    videoUrl,         \* the videoUrl prop
    runs,             \* one record per execution of the [videoUrl] effect
    frames,           \* framesRef.current
    isReady,          \* useState isReady
    loadingProgress,  \* useState loadingProgress
    armed,            \* scroll and resize listeners of the [isReady] effect attached
    inner,            \* window.innerWidth / innerHeight
    canvas,           \* canvasRef.current width / height
    scrollTop,        \* containerRef.current.scrollTop
    lastEv,           \* the last handler of ScrollPreview that ran the draw routine
    lastDraw,         \* what that handler drew
    \* exported HTML kit
    kpc,              \* position of the kit's async sampling function
    ki,               \* its loop variable i
    S,                \* the kit's frame list S
    kcanvas,          \* the kit's canvas c
    kinner,           \* the kit window's innerWidth / innerHeight
    kEv,              \* the last event of the kit that executed D
    kDraw,            \* what D drew
    \* the sampling loop on its own
    prog,             \* loop variable and progress values of one sampling loop
    \* generateVideo
    gen,              \* one call of generateVideo
    \* VideoResult, GIF export
    gif               \* props and state of VideoResult, conversions in flight

appVars == <<mounted, videoUrl, runs, frames, isReady, loadingProgress, armed,
             inner, canvas, scrollTop, lastEv, lastDraw>>
kitVars == <<kpc, ki, S, kcanvas, kinner, kEv, kDraw>>
auxVars == <<prog, gen, gif>>
vars == <<appVars, kitVars, auxVars>>

\* ------------------------------------------------------------ draw routine
NoRect == [wide |-> FALSE, dw |-> <<0, 1>>, dh |-> <<0, 1>>,
           ox |-> <<0, 1>>, oy |-> <<0, 1>>]
NoFrame == [src |-> "none", k |-> 0, t |-> <<0, 1>>, w |-> 0, h |-> 0]
\* A run of the draw routine over a list of len frames that drew nothing.
Blank(len) == [n |-> 0, len |-> len, index |-> -1, frame |-> NoFrame,
               W |-> 0, H |-> 0, rect |-> NoRect]

\* CoverFit with the comparison of the aspect ratios reversed (contain
\* instead of cover).
CoverFitReversed(fw, fh, W, H) ==
    IF W * fh < fw * H
    THEN [wide |-> TRUE, dw |-> <<W, 1>>, dh |-> <<W * fh, fw>>,
          ox |-> <<0, 1>>, oy |-> <<H * fw - W * fh, 2 * fw>>]
    ELSE [wide |-> FALSE, dw |-> <<H * fw, fh>>, dh |-> <<H, 1>>,
          ox |-> <<W * fh - H * fw, 2 * fh>>, oy |-> <<0, 1>>]

\* Cover logic of handleScroll (and of D in the kit): frame fw x fh drawn
\* into a surface W x H.
CoverFit(fw, fh, W, H) ==
    IF W * fh > fw * H
    THEN [wide |-> TRUE, dw |-> <<W, 1>>, dh |-> <<W * fh, fw>>,
          ox |-> <<0, 1>>, oy |-> <<H * fw - W * fh, 2 * fw>>]
    ELSE [wide |-> FALSE, dw |-> <<H * fw, fh>>, dh |-> <<H, 1>>,
          ox |-> <<W * fh - H * fw, 2 * fh>>, oy |-> <<0, 1>>]

\* scrollHeight - clientHeight of the scroll container: the container fills
\* the viewport and its only child is 500vh tall.
ScrollRange(ih) == 5 * ih - ih

\* The scroll positions explored for a scroll range rg: the two ends, the
\* middle, and one pixel of overscroll beyond either end.
ScrollStops(rg) == {-1, 0, rg \div 2, rg, rg + 1}

\* scrollPercent = Math.max(0, Math.min(1, scrollTop / scrollHeight))
ScrollPercent(st, rg) ==
    IF st < 0 THEN <<0, 1>> ELSE IF st > rg THEN <<1, 1>> ELSE <<st, rg>>

\* FrameIndex scaled by the length instead of the length minus one.
FrameIndexByLength(p, len) == RFloor(<<p[1] * len, p[2]>>)

\* frameIndex = Math.floor(scrollPercent * (framesRef.current.length - 1))
FrameIndex(p, len) == RFloor(<<p[1] * (len - 1), p[2]>>)

\* The body of the draw routine once the index is computed: `if (frame)`
\* guards an index outside the list.
DrawAt(fr, idx, cv) ==
    IF idx >= 0 /\ idx < Len(fr)
    THEN [n |-> 1, len |-> Len(fr), index |-> idx, frame |-> fr[idx + 1],
          W |-> cv.w, H |-> cv.h,
          rect |-> CoverFit(fr[idx + 1].w, fr[idx + 1].h, cv.w, cv.h)]
    ELSE Blank(Len(fr))

\* handleScroll
HandleScroll(fr, st, rg, cv) == DrawAt(fr, FrameIndex(ScrollPercent(st, rg), Len(fr)), cv)

\* ------------------------------------------------------------ sampling run
\* NewRun handing every run the video element of the first run.
NewRunSharedVideo(u, v) ==
    [url |-> u, video |-> 1, seeks |-> 0, pc |-> "awaitMeta", i |-> 0,
     isActive |-> TRUE, videoFailed |-> FALSE, logged |-> FALSE,
     readyCalled |-> FALSE]

\* An execution of the [videoUrl] effect: document.createElement('video')
\* gives it the video element v, on which it has requested no seek yet.
NewRun(u, v) ==
    [url |-> u, video |-> v, seeks |-> 0, pc |-> "awaitMeta", i |-> 0,
     isActive |-> TRUE, videoFailed |-> FALSE, logged |-> FALSE,
     readyCalled |-> FALSE]

\* The frame captured by onSeeked of run r: timestamp (duration / FRAME_COUNT) * i.
Capture(r) == [src |-> r.url, k |-> r.i, t |-> <<Duration(r.url) * r.i, FRAME_COUNT>>,
               w |-> VideoWidth(r.url), h |-> VideoHeight(r.url)]

\* Top of the for loop of extractFrames with loop variable r.i: the run
\* returns, throws into the catch, assigns video.currentTime (a seek request
\* on its video element) and suspends on the seeked event, or leaves the loop
\* and calls setIsReady(true).
LoopTop(r) ==
    IF r.i < FRAME_COUNT
    THEN IF ~r.isActive THEN [r EXCEPT !.pc = "returned"]
         ELSE IF ~FiniteDuration(r.url) THEN [r EXCEPT !.pc = "error", !.logged = TRUE]
         ELSE [r EXCEPT !.pc = "awaitSeek", !.seeks = @ + 1]
    ELSE [r EXCEPT !.pc = "done", !.readyCalled = TRUE]

InitKit ==
    /\ kpc = "awaitMeta"
    /\ ki = 0
    /\ S = << >>
    /\ kcanvas = CanvasDefault
    /\ kinner = inner
    /\ kEv = "none"
    /\ kDraw = Blank(0)

InitApp ==
    /\ mounted = TRUE
    /\ videoUrl \in Urls
    /\ runs = <<NewRun(videoUrl, 1)>>
    /\ frames = << >>
    /\ isReady = FALSE
    /\ loadingProgress = 0
    /\ armed = FALSE
    /\ inner \in WindowSizes
    /\ canvas = CanvasDefault
    /\ scrollTop = 0
    /\ lastEv = "none"
    /\ lastDraw = Blank(0)

\* The sampling loop on its own has not started.
\* generateVideo before it is called.  op is the operation object last
\* received from the service, fetch the outcome of fetching the video.
GenIdle == [pc |-> "idle", mode |-> "TEXT_TO_VIDEO", hasInput |-> FALSE,
            submitted |-> 0, polls |-> 0, pollsAfterDone |-> 0, fetches |-> 0,
            op |-> [done |-> FALSE, response |-> "none"], fetch |-> "none",
            cause |-> "none"]

\* VideoResult mounted on the video u: useState(false) and useState(0), no
\* click on the GIF controls yet.  convs holds the calls of handleDownloadGif
\* that have not ended, lastEnd how the last one ended.
GifMounted(u) ==
    [videoUrl |-> u, videoDuration |-> [finite |-> TRUE, secs |-> 0],
     isConvertingGif |-> FALSE, convs |-> << >>, clicks |-> 0, started |-> 0,
     lastEnd |-> "none"]

\* The sampling loop on its own has not started, generateVideo has not been
\* called, VideoResult shows the video of the preview.
InitAux ==
    /\ prog = [n |-> FRAME_COUNT, i |-> 0, emits |-> 0, prev |-> 0, last |-> 0]
    /\ gen = GenIdle
    /\ gif = GifMounted(videoUrl)

\* Both programs start on the same video in windows of the same size.
Init == InitApp /\ InitKit /\ InitAux

\* video.onloadedmetadata of run j: the canvas gets the window size and the
\* loop starts.
OnLoadedMetadata(j) ==
    /\ runs[j].pc = "awaitMeta"
    /\ ~runs[j].videoFailed
    /\ canvas' = inner
    /\ LET r == LoopTop(runs[j]) IN
        /\ runs' = [runs EXCEPT ![j] = r]
        /\ isReady' = IF r.pc = "done" /\ mounted THEN TRUE ELSE isReady
    /\ UNCHANGED <<mounted, videoUrl, frames, loadingProgress, armed, inner,
                   scrollTop, lastEv, lastDraw>>

\* The video element of run j fails (undecodable source, decode error during
\* a seek): neither loadedmetadata nor seeked fires on it any more.  The run
\* listens to no error event.
VideoError(j) ==
    /\ runs[j].pc \in {"awaitMeta", "awaitSeek"}
    /\ ~runs[j].videoFailed
    /\ runs' = [runs EXCEPT ![j].videoFailed = TRUE]
    /\ UNCHANGED <<mounted, videoUrl, frames, isReady, loadingProgress, armed,
                   inner, canvas, scrollTop, lastEv, lastDraw>>

\* onSeeked of run j, then the continuation of extractFrames up to its next
\* suspension.
OnSeeked(j) ==
    /\ runs[j].pc = "awaitSeek"
    /\ ~runs[j].videoFailed
    /\ frames' = Append(frames, Capture(runs[j]))
    /\ loadingProgress' = IF mounted THEN FrameProgress[runs[j].i]
                          ELSE loadingProgress
    /\ LET r == LoopTop([runs[j] EXCEPT !.i = @ + 1]) IN
        /\ runs' = [runs EXCEPT ![j] = r]
        /\ isReady' = IF r.pc = "done" /\ mounted THEN TRUE ELSE isReady
    /\ UNCHANGED <<mounted, videoUrl, armed, inner, canvas, scrollTop, lastEv, lastDraw>>

\* The [isReady] effect after isReady became true: listeners attached,
\* initial draw.
ScrollEffect ==
    /\ mounted /\ isReady /\ ~armed
    /\ armed' = TRUE
    /\ lastEv' = "init"
    /\ lastDraw' = HandleScroll(frames, scrollTop, ScrollRange(inner.h), canvas)
    /\ UNCHANGED <<mounted, videoUrl, runs, frames, isReady, loadingProgress,
                   inner, canvas, scrollTop>>

\* The user scrolls the container to st; handleScroll runs if attached.
Scroll(st) ==
    /\ mounted
    /\ scrollTop' = st
    /\ IF armed
       THEN /\ lastEv' = "scroll"
            /\ lastDraw' = HandleScroll(frames, st, ScrollRange(inner.h), canvas)
       ELSE UNCHANGED <<lastEv, lastDraw>>
    /\ UNCHANGED <<mounted, videoUrl, runs, frames, isReady, loadingProgress,
                   armed, inner, canvas>>

\* The window is resized to sz: the layout keeps scrollTop within the new
\* scroll range; handleResize runs if attached.
Resize(sz) ==
    /\ mounted
    /\ sz # inner
    /\ inner' = sz
    /\ scrollTop' = IF scrollTop > ScrollRange(sz.h) THEN ScrollRange(sz.h) ELSE scrollTop
    /\ IF armed
       THEN /\ canvas' = sz
            /\ lastEv' = "resize"
            /\ lastDraw' = HandleScroll(frames, scrollTop', ScrollRange(sz.h), sz)
       ELSE UNCHANGED <<canvas, lastEv, lastDraw>>
    /\ UNCHANGED <<mounted, videoUrl, runs, frames, isReady, loadingProgress, armed>>

\* The videoUrl prop changes: cleanup of the [videoUrl] effect, then the
\* effect again.
UrlChange(u) ==
    /\ mounted
    /\ u # videoUrl
    /\ Len(runs) < MaxRuns
    /\ videoUrl' = u
    /\ runs' = Append([runs EXCEPT ![Len(runs)].isActive = FALSE],
                       NewRun(u, Len(runs) + 1))
    /\ UNCHANGED <<mounted, frames, isReady, loadingProgress, armed, inner,
                   canvas, scrollTop, lastEv, lastDraw>>

\* The component unmounts: cleanup of both effects.
Unmount ==
    /\ mounted
    /\ mounted' = FALSE
    /\ armed' = FALSE
    /\ runs' = [runs EXCEPT ![Len(runs)].isActive = FALSE]
    /\ UNCHANGED <<videoUrl, frames, isReady, loadingProgress, inner, canvas,
                   scrollTop, lastEv, lastDraw>>

\* ScrollPreview alone; the kit stays as it started.
Next ==
    \/ \E j \in 1..Len(runs) : OnLoadedMetadata(j) /\ UNCHANGED <<kitVars, auxVars>>
    \/ \E j \in 1..Len(runs) : VideoError(j) /\ UNCHANGED <<kitVars, auxVars>>
    \/ \E j \in 1..Len(runs) : OnSeeked(j) /\ UNCHANGED <<kitVars, auxVars>>
    \/ ScrollEffect /\ UNCHANGED <<kitVars, auxVars>>
    \/ \E st \in ScrollStops(ScrollRange(inner.h)) : Scroll(st) /\ UNCHANGED <<kitVars, auxVars>>
    \/ \E sz \in WindowSizes : Resize(sz) /\ UNCHANGED <<kitVars, auxVars>>
    \/ \E u \in Urls : UrlChange(u) /\ UNCHANGED <<kitVars, auxVars>>
    \/ Unmount /\ UNCHANGED <<kitVars, auxVars>>

Spec == Init /\ [][Next]_vars

\* The sampling runs without the scroll and resize handlers.
SampleNext ==
    \/ \E j \in 1..Len(runs) : OnLoadedMetadata(j) /\ UNCHANGED <<kitVars, auxVars>>
    \/ \E j \in 1..Len(runs) : VideoError(j) /\ UNCHANGED <<kitVars, auxVars>>
    \/ \E j \in 1..Len(runs) : OnSeeked(j) /\ UNCHANGED <<kitVars, auxVars>>
    \/ \E u \in Urls : UrlChange(u) /\ UNCHANGED <<kitVars, auxVars>>
    \/ Unmount /\ UNCHANGED <<kitVars, auxVars>>

SpecSample == Init /\ [][SampleNext]_vars

\* The sampling runs on video elements that deliver their events: the
\* loadedmetadata event and the seeked event of a requested seek fire unless
\* the element fails.
SpecLive ==
    /\ Init
    /\ [][SampleNext]_vars
    /\ \A j \in 1..MaxRuns :
          /\ WF_vars(j <= Len(runs) /\ OnLoadedMetadata(j)
                        /\ UNCHANGED <<kitVars, auxVars>>)
          /\ WF_vars(j <= Len(runs) /\ OnSeeked(j)
                        /\ UNCHANGED <<kitVars, auxVars>>)

\* ------------------------------------------------------- exported HTML kit
\* The kit plays the file downloaded beside it, the video of videoUrl.
\* D(p): no clamp of p.
D(p) == DrawAt(S, FrameIndex(p, Len(S)), kcanvas)

\* v.onloadedmetadata, then the first iteration up to its seek:
\* v.currentTime = d/F*i throws into the catch when d is not finite.
KitLoadedMetadata ==
    /\ kpc = "awaitMeta"
    /\ kpc' = IF FiniteDuration(videoUrl) THEN "awaitSeek" ELSE "error"
    /\ UNCHANGED <<ki, S, kcanvas, kinner, kEv, kDraw>>

\* s (the seeked listener), then the loop up to the next seek or, after the
\* last frame, READY and R().
KitSeeked ==
    /\ kpc = "awaitSeek"
    /\ S' = Append(S, [src |-> videoUrl, k |-> ki,
                       t |-> <<Duration(videoUrl) * ki, FRAME_COUNT>>,
                       w |-> VideoWidth(videoUrl), h |-> VideoHeight(videoUrl)])
    /\ ki' = ki + 1
    /\ IF ki + 1 < FRAME_COUNT
       THEN /\ kpc' = "awaitSeek"
            /\ UNCHANGED <<kcanvas, kEv, kDraw>>
       ELSE /\ kpc' = "ready"
            /\ kcanvas' = kinner
            /\ kEv' = "ready"
            /\ kDraw' = DrawAt(S', FrameIndex(<<0, 1>>, Len(S')), kinner)
    /\ UNCHANGED kinner

\* The window scroll listener: D(scrollTop / (scrollHeight - clientHeight)).
KitScroll(st) ==
    /\ kEv' = "scroll"
    /\ kDraw' = D(<<st, ScrollRange(kinner.h)>>)
    /\ UNCHANGED <<kpc, ki, S, kcanvas, kinner>>

\* window.onmessage with data {type: "scroll", percent: p}.
KitMessage(p) ==
    /\ kEv' = "message"
    /\ kDraw' = D(p)
    /\ UNCHANGED <<kpc, ki, S, kcanvas, kinner>>

\* R, the resize listener: c gets the window size, then D(0).
KitResize(sz) ==
    /\ sz # kinner
    /\ kinner' = sz
    /\ kcanvas' = sz
    /\ kEv' = "resize"
    /\ kDraw' = DrawAt(S, FrameIndex(<<0, 1>>, Len(S)), sz)
    /\ UNCHANGED <<kpc, ki, S>>

\* Progress values posted to the kit: -1/2, 0, 1/2, 1, 3/2.
Percents == {<<n, 2>> : n \in -1..3}

\* The two programs side by side: same video, same seek completions, same
\* scroll positions, same resizes.  The component stays mounted on one
\* videoUrl.
PairNext ==
    \/ OnLoadedMetadata(1) /\ KitLoadedMetadata /\ UNCHANGED auxVars
    \/ OnSeeked(1) /\ KitSeeked /\ UNCHANGED auxVars
    \/ ScrollEffect /\ UNCHANGED <<kitVars, auxVars>>
    \/ \E st \in ScrollStops(ScrollRange(inner.h)) : Scroll(st) /\ KitScroll(st)
                                                    /\ UNCHANGED auxVars
    \/ \E sz \in WindowSizes : Resize(sz) /\ KitResize(sz) /\ UNCHANGED auxVars
    \/ \E p \in Percents : KitMessage(p) /\ UNCHANGED <<appVars, auxVars>>

SpecPair == Init /\ [][PairNext]_vars

\* ------------------------------------------------- the draw routine alone
\* The armed preview on a list of L frames of size fw x fh: handleScroll and
\* handleResize applied to every scroll position and window size.
SampledFrames(L, fw, fh) ==
    [j \in 1..L |-> [src |-> "a", k |-> j - 1, t |-> <<Duration("a") * (j - 1), L>>,
                     w |-> fw, h |-> fh]]

Sizes == [w : 1..MaxDim, h : 1..MaxDim]

ScrubInit ==
    /\ mounted = TRUE
    /\ videoUrl = "a"
    /\ runs = << >>
    /\ \E L \in 1..MaxLen, fw \in 1..MaxDim, fh \in 1..MaxDim :
          frames = SampledFrames(L, fw, fh)
    /\ isReady = TRUE
    /\ loadingProgress = 0
    /\ armed = TRUE
    /\ inner \in Sizes
    /\ canvas = inner
    /\ scrollTop = 0
    /\ lastEv = "init"
    /\ lastDraw = HandleScroll(frames, scrollTop, ScrollRange(inner.h), canvas)
    /\ InitKit
    /\ InitAux

ScrubNext ==
    \/ \E st \in -1 .. (ScrollRange(inner.h) + 1) : Scroll(st) /\ UNCHANGED <<kitVars, auxVars>>
    \/ \E sz \in Sizes : Resize(sz) /\ UNCHANGED <<kitVars, auxVars>>

SpecScrub == ScrubInit /\ [][ScrubNext]_vars

\* ------------------------------------------------ the sampling loop alone
\* FRAME_COUNT as the source has it.
SourceFrameCount == 100

\* The for loop of extractFrames on a mounted component whose video loads
\* and seeks, with the progress values it hands to setLoadingProgress: the
\* loop runs with the scaled-down frame count or with the source's.
ProgressInit ==
    /\ InitApp
    /\ InitKit
    /\ \E n \in {FRAME_COUNT, SourceFrameCount} :
          prog = [n |-> n, i |-> 0, emits |-> 0, prev |-> 0, last |-> 0]
    /\ gen = GenIdle
    /\ gif = GifMounted(videoUrl)

\* onSeeked of iteration prog.i: the frame is captured, the progress value
\* is emitted, the loop variable advances.
ProgressSeeked ==
    /\ prog.i < prog.n
    /\ prog' = [prog EXCEPT !.i = @ + 1, !.emits = @ + 1, !.prev = prog.last,
                              !.last = Progress(prog.i, prog.n)]

ProgressNext == ProgressSeeked /\ UNCHANGED <<appVars, kitVars, gen, gif>>

SpecProgress == ProgressInit /\ [][ProgressNext]_vars

\* ----------------------------------------------------------- generateVideo
Modes == {"TEXT_TO_VIDEO", "FRAMES_TO_VIDEO", "REFERENCES_TO_VIDEO",
          "EXTEND_VIDEO"}

\* The operation objects the service can return: not done, or done with no
\* response, with a response without videos, with a first video without a
\* URI, or with a first video that has a URI.
Operations ==
    {[done |-> FALSE, response |-> "none"]}
    \cup {[done |-> TRUE, response |-> r] :
             r \in {"none", "noVideos", "noUri", "uri"}}

\* Outcomes of fetching the video: res.ok and the body read, res.ok false,
\* fetch rejected, res.ok but reading the body rejected.
FetchOutcomes == {"ok", "notOk", "networkError", "bodyError"}

\* Observe with a loop that waits and polls once more whatever the operation
\* says.
ObservePollsAgain(g, op) ==
    [g EXCEPT !.op = op, !.pc = "waiting"]

\* generateVideo receives the operation op (from the submission or from a
\* poll): the loop waits for the next poll while op is not done; a done op
\* is checked and its video fetched, or the call throws.
Observe(g, op) ==
    IF ~op.done THEN [g EXCEPT !.op = op, !.pc = "waiting"]
    ELSE IF op.response = "none"
         THEN [g EXCEPT !.op = op, !.pc = "rejected", !.cause = "noResponse"]
    ELSE IF op.response = "noVideos"
         THEN [g EXCEPT !.op = op, !.pc = "rejected", !.cause = "noVideos"]
    ELSE IF op.response = "noUri"
         THEN [g EXCEPT !.op = op, !.pc = "rejected", !.cause = "noUri"]
    ELSE [g EXCEPT !.op = op, !.pc = "fetching", !.fetches = @ + 1]

\* A call generateVideo(params): the payload is built; EXTEND_VIDEO without
\* an input video object throws, otherwise the request is submitted.
GenStart(mode, hasInput) ==
    /\ gen.pc = "idle"
    /\ gen' = IF mode = "EXTEND_VIDEO" /\ ~hasInput
              THEN [gen EXCEPT !.mode = mode, !.hasInput = hasInput,
                               !.pc = "rejected", !.cause = "noInputVideo"]
              ELSE [gen EXCEPT !.mode = mode, !.hasInput = hasInput,
                               !.pc = "submitting", !.submitted = @ + 1]

\* ai.models.generateVideos returns the operation op.
GenSubmitted(op) ==
    /\ gen.pc = "submitting"
    /\ gen' = Observe(gen, op)

\* The 10 s timer of the loop fires and the poll is requested.
GenPoll ==
    /\ gen.pc = "waiting"
    /\ gen.polls < MaxPolls
    /\ gen' = [gen EXCEPT !.pc = "polling", !.polls = @ + 1,
                          !.pollsAfterDone = @ + (IF gen.op.done THEN 1 ELSE 0)]

\* ai.operations.getVideosOperation returns the operation op.
GenPolled(op) ==
    /\ gen.pc = "polling"
    /\ gen' = Observe(gen, op)

\* A request to the service (submission or poll) rejects.
GenRequestFails ==
    /\ gen.pc \in {"submitting", "polling"}
    /\ gen' = [gen EXCEPT !.pc = "rejected", !.cause = "requestFailed"]

\* The fetch of the video settles.
GenFetched(outcome) ==
    /\ gen.pc = "fetching"
    /\ gen' = [gen EXCEPT !.fetch = outcome,
                          !.pc = IF outcome = "ok" THEN "resolved" ELSE "rejected",
                          !.cause = IF outcome = "ok" THEN "none" ELSE outcome]

GenNext ==
    \/ \E mode \in Modes, hasInput \in BOOLEAN :
          GenStart(mode, hasInput) /\ UNCHANGED <<appVars, kitVars, prog, gif>>
    \/ \E op \in Operations : GenSubmitted(op) /\ UNCHANGED <<appVars, kitVars, prog, gif>>
    \/ GenPoll /\ UNCHANGED <<appVars, kitVars, prog, gif>>
    \/ \E op \in Operations : GenPolled(op) /\ UNCHANGED <<appVars, kitVars, prog, gif>>
    \/ GenRequestFails /\ UNCHANGED <<appVars, kitVars, prog, gif>>
    \/ \E outcome \in FetchOutcomes :
          GenFetched(outcome) /\ UNCHANGED <<appVars, kitVars, prog, gif>>

SpecGen == Init /\ [][GenNext]_vars

\* -------------------------------------------------------- GIF export
\* The divisors of the GIF controls: the button and "Normal" pass
\* getFrames(1), "2x Speed" getFrames(2), "4x Speed" getFrames(4).
Divisors == {1, 2, 4}

\* getFrames(divisor) = Math.floor(((videoDuration || 8) / divisor) * 10);
\* a videoDuration that is not finite gives a frame count that is not finite.
GetFrames(vd, divisor) ==
    IF ~vd.finite THEN [finite |-> FALSE, n |-> 0]
    ELSE [finite |-> TRUE,
          n |-> RFloor(<<(IF vd.secs = 0 THEN 8 ELSE vd.secs) * 10, divisor>>)]

\* GIF controls that stay usable during a conversion.
GifControlsAlwaysEnabled(flag) == TRUE

\* The GIF button is disabled and the duration menu is not rendered while
\* isConvertingGif.
GifControlsEnabled(flag) == ~flag

\* handleDownloadGif from the top of its for loop at iteration c.i up to its
\* next suspension.  Iteration 0 has time 0 (NaN when the duration is not
\* finite) and draws without a seek; a later iteration assigns
\* video.currentTime, which throws when the time is not finite; after the
\* last iteration gifshot.createGIF is called.  A frame count that is not
\* finite never leaves the loop.
GifLoop(c, u) ==
    LET c1 == IF c.i = 0 /\ (~c.frames.finite \/ c.frames.n > 0)
              THEN [c EXCEPT !.i = 1, !.images = @ + 1] ELSE c
    IN  IF ~c1.frames.finite THEN [c1 EXCEPT !.pc = "hung"]
        ELSE IF c1.i >= c1.frames.n THEN [c1 EXCEPT !.pc = "encoding"]
        ELSE IF ~FiniteDuration(u) THEN [c1 EXCEPT !.pc = "exception"]
        ELSE [c1 EXCEPT !.pc = "awaitSeek"]

RemoveAt(seq, k) == SubSeq(seq, 1, k - 1) \o SubSeq(seq, k + 1, Len(seq))

\* The conversion at position k goes on as c; an exception lands in the
\* catch, which resets the flag.
GifSettle(g, k, c) ==
    IF c.pc = "exception"
    THEN [g EXCEPT !.convs = RemoveAt(g.convs, k), !.isConvertingGif = FALSE,
                   !.lastEnd = "exception"]
    ELSE [g EXCEPT !.convs[k] = c]

\* A click on the GIF button or on an entry of the duration menu:
\* handleDownloadGif(getFrames(divisor)) up to its await of the metadata.
GifClick(divisor) ==
    /\ GifControlsEnabled(gif.isConvertingGif)
    /\ gif.clicks < MaxClicks
    /\ gif' = IF gif.videoUrl = ""
              THEN [gif EXCEPT !.clicks = @ + 1]
              ELSE [gif EXCEPT !.clicks = @ + 1, !.started = @ + 1,
                               !.isConvertingGif = TRUE,
                               !.convs = Append(@,
                                   [frames |-> GetFrames(gif.videoDuration, divisor),
                                    pc |-> "awaitMeta", i |-> 0, images |-> 0])]

\* onLoadedMetadata of the visible video: setVideoDuration.
GifVisibleMetadata ==
    /\ gif.videoUrl # ""
    /\ gif.videoDuration.secs = 0 /\ gif.videoDuration.finite
    /\ gif' = [gif EXCEPT !.videoDuration =
                  [finite |-> FiniteDuration(gif.videoUrl),
                   secs |-> Duration(gif.videoUrl)]]

\* onloadedmetadata of the off-screen video of conversion k.
GifLoadedMetadata(k) ==
    /\ gif.convs[k].pc = "awaitMeta"
    /\ gif' = GifSettle(gif, k, GifLoop(gif.convs[k], gif.videoUrl))

\* onSeeked of conversion k: the frame is drawn and stored, the loop goes on.
GifSeeked(k) ==
    /\ gif.convs[k].pc = "awaitSeek"
    /\ gif' = GifSettle(gif, k,
                  GifLoop([gif.convs[k] EXCEPT !.i = @ + 1, !.images = @ + 1],
                          gif.videoUrl))

\* The callback of gifshot.createGIF for conversion k, with or without
\* obj.error.
GifCallback(k, error) ==
    /\ gif.convs[k].pc = "encoding"
    /\ gif' = [gif EXCEPT !.convs = RemoveAt(gif.convs, k),
                          !.isConvertingGif = FALSE,
                          !.lastEnd = IF error THEN "libraryError" ELSE "produced"]

GifNext ==
    \/ \E divisor \in Divisors :
          GifClick(divisor) /\ UNCHANGED <<appVars, kitVars, prog, gen>>
    \/ GifVisibleMetadata /\ UNCHANGED <<appVars, kitVars, prog, gen>>
    \/ \E k \in 1..Len(gif.convs) :
          GifLoadedMetadata(k) /\ UNCHANGED <<appVars, kitVars, prog, gen>>
    \/ \E k \in 1..Len(gif.convs) :
          GifSeeked(k) /\ UNCHANGED <<appVars, kitVars, prog, gen>>
    \/ \E k \in 1..Len(gif.convs), error \in BOOLEAN :
          GifCallback(k, error) /\ UNCHANGED <<appVars, kitVars, prog, gen>>

\* VideoResult shows the video of the preview or has an empty videoUrl.
GifInit ==
    /\ InitApp
    /\ InitKit
    /\ prog = [n |-> FRAME_COUNT, i |-> 0, emits |-> 0, prev |-> 0, last |-> 0]
    /\ gen = GenIdle
    /\ \E u \in {videoUrl, ""} : gif = GifMounted(u)

SpecGif == GifInit /\ [][GifNext]_vars

\* ================================================================== claims
\* Comparison of rationals.
RLe(p, q) == p[1] * q[2] <= q[1] * p[2]
REq(p, q) == p[1] * q[2] = q[1] * p[2]
RLt(p, q) == p[1] * q[2] < q[1] * p[2]

\* C1: whenever the ready signal isReady is true, the frame list
\* framesRef.current holds exactly FRAME_COUNT frames.
C1_ReadyHasExactlyN == isReady => Len(frames) = FRAME_COUNT

\* C2: a sampling run whose active flag was cleared before it completed never
\* sets the ready signal to true afterwards.
C2_CancelledRunNeverSetsReady ==
    [][\A j \in 1..Len(runs) :
          (~runs[j].isActive /\ runs[j].pc # "done")
              => ~(runs'[j].pc = "done" /\ ~isReady /\ isReady')]_vars

\* C3: once the active flag of a sampling run has been cleared, no step of
\* that run appends a frame to the frame list.
C3_NoAppendAfterCancel ==
    [][\A j \in 1..Len(runs) :
          (~runs[j].isActive /\ runs'[j] # runs[j]) => frames' = frames]_vars

\* C4: the draw routine never runs over a frame list that is still being
\* populated: in the preview no handler draws before isReady, and in the kit
\* no scroll, resize or message event has D draw a frame while S holds fewer
\* than F frames.
C4_NoDrawWhilePopulating ==
    /\ lastEv # "none" => isReady /\ lastDraw.len >= FRAME_COUNT
    /\ (kEv \in {"scroll", "resize", "message"} /\ kDraw.n = 1)
           => kDraw.len >= FRAME_COUNT

\* C5: the frame list is in strictly increasing timestamp order and the frame
\* at position i was captured at duration*i/N of the current video source.
C5_FramesOrderedOnGrid ==
    \A j \in 1..Len(frames) :
        /\ frames[j].src = videoUrl
        /\ REq(frames[j].t, <<Duration(videoUrl) * (j - 1), FRAME_COUNT>>)
        /\ j > 1 => RLt(frames[j - 1].t, frames[j].t)

\* C6: frame selection by the scroll handler.  For the list of L >= 1 frames
\* it reads, a scroll event draws exactly one frame, the one at index
\* floor(f * (L - 1)) for the scroll fraction f clamped to [0,1]; over the
\* scroll positions the selected index stays within [0, L-1], never
\* decreases as the position grows, is 0 at fraction 0 and L-1 at fraction
\* 1; with L = 100, fraction 1/2 selects 49.
Clamped(st, rg) == IF st < 0 THEN 0 ELSE IF st > rg THEN rg ELSE st
Selected(st) == HandleScroll(frames, st, ScrollRange(inner.h), canvas)
C7_CoverFit ==
    lastDraw.n = 1 =>
        LET r == lastDraw.rect
            fw == lastDraw.frame.w
            fh == lastDraw.frame.h
            W == lastDraw.W
            H == lastDraw.H
        IN  /\ fw > 0 /\ fh > 0 /\ W > 0 /\ H > 0
            /\ r.dw[2] > 0 /\ r.dh[2] > 0 /\ r.ox[2] > 0 /\ r.oy[2] > 0
            /\ RLe(<<W, 1>>, r.dw)
            /\ RLe(<<H, 1>>, r.dh)
            /\ REq(<<r.dw[1] * fh, r.dw[2]>>, <<r.dh[1] * fw, r.dh[2]>>)
            /\ REq(r.ox, <<W * r.dw[2] - r.dw[1], 2 * r.dw[2]>>)
            /\ REq(r.oy, <<H * r.dh[2] - r.dh[1], 2 * r.dh[2]>>)
            /\ r.ox[1] = 0 \/ r.oy[1] = 0
            /\ r.ox[1] <= 0 /\ r.oy[1] <= 0
            /\ r.wide <=> W * fh > H * fw
            /\ r.wide => REq(r.dw, <<W, 1>>)
            /\ ~r.wide => REq(r.dh, <<H, 1>>)

\* A redraw after a resize to a surface wider than the frame: width filled,
\* top and bottom cropped.
C7_Witness ==
    /\ lastEv = "resize"
    /\ lastDraw.n = 1
    /\ lastDraw.rect.wide
    /\ lastDraw.rect.oy[1] < 0

\* C8: a resize handled by the preview sets the surface to the new viewport
\* size and redraws the frame index drawn by the most recent scroll, without
\* touching the frame list or any sampling run.
C8_ResizeKeepsIndex ==
    [][(armed /\ lastEv = "scroll" /\ inner' # inner)
          => /\ canvas' = inner'
             /\ lastDraw'.index = lastDraw.index
             /\ frames' = frames
             /\ runs' = runs]_vars

\* C9: side by side on the same video and the same events, the kit and the
\* preview capture the same timestamps and, at every draw (initial, scroll,
\* resize), select the same frame index and compute the same rectangle.
SameEvent ==
    \/ lastEv = "init" /\ kEv = "ready"
    \/ lastEv = "scroll" /\ kEv = "scroll"
    \/ lastEv = "resize" /\ kEv = "resize"
C9_KitMatchesPreview ==
    /\ S = frames
    /\ (armed /\ SameEvent) => kDraw = lastDraw

\* C10: a sampling run whose video failed to load or to seek ends in the
\* error outcome with the error logged, and never sets ready.  (A run whose
\* video has failed has no further step, so the state it is in is its last.)
C10_FailureLogged ==
    \A j \in 1..Len(runs) :
        runs[j].videoFailed
            => runs[j].pc = "error" /\ runs[j].logged /\ ~runs[j].readyCalled

\* C11: sample progress.  Within one sampling run a progress value is
\* emitted exactly once per captured frame, the value emitted for frame i is
\* the integer floor(i * 100 / N), the emitted values never decrease, and
\* the emitted and the displayed progress lie in [0,100].
C11_SampleProgress ==
    /\ prog.emits = prog.i
    /\ prog.i > 0 => prog.last = ((prog.i - 1) * 100) \div prog.n
    /\ prog.prev <= prog.last
    /\ prog.last \in 0..100
    /\ loadingProgress \in 0..100

\* C12: frame capture is strictly sequential.  On every video element at
\* most one seek is outstanding; a run has requested the seek for its next
\* frame only after the seeked event of the frame before fired and that
\* frame was captured (requests are at most one ahead of captures, and
\* exactly one ahead while the run waits for seeked); no two sampling runs
\* drive the same video element.
Outstanding(v) ==
    LET Sum[k \in 0..Len(runs)] ==
            IF k = 0 THEN 0
            ELSE Sum[k - 1] + (IF runs[k].video = v
                               THEN runs[k].seeks - runs[k].i ELSE 0)
    IN  Sum[Len(runs)]
C12_SequentialCapture ==
    /\ \A j \in 1..Len(runs) :
          /\ Outstanding(runs[j].video) \in {0, 1}
          /\ runs[j].seeks - runs[j].i \in {0, 1}
          /\ runs[j].pc = "awaitSeek" <=> runs[j].seeks = runs[j].i + 1
    /\ \A j, k \in 1..Len(runs) : j # k => runs[j].video # runs[k].video

\* Two runs each wait for a seek on their own video element, the later one
\* for the seek of its second frame.
C12_Witness ==
    /\ Len(runs) = 2
    /\ runs[1].pc = "awaitSeek" /\ runs[2].pc = "awaitSeek"
    /\ runs[2].i = 1 /\ runs[2].seeks = 2

\* C13: completion and stall.  A sampling run that is never cancelled, whose
\* metadata loads and whose requested seeks all complete, eventually marks
\* the frame set ready after exactly FRAME_COUNT captures; and a run waiting
\* for a seeked event that does not fire stays at that iteration: without
\* that event it requests no further seek and does not become ready.
C13_Completion ==
    \A j \in 1..MaxRuns :
        (j <= Len(runs) /\ runs[j].pc = "awaitMeta")
            ~> /\ j <= Len(runs)
               /\ \/ /\ runs[j].pc = "done"
                     /\ runs[j].i = FRAME_COUNT
                     /\ runs[j].readyCalled
                     /\ isReady
                  \/ ~runs[j].isActive
                  \/ runs[j].videoFailed
C13_Stall ==
    [][\A j \in 1..Len(runs) :
          (runs[j].pc = "awaitSeek" /\ runs'[j].i = runs[j].i)
              => /\ runs'[j].pc = "awaitSeek"
                 /\ runs'[j].seeks = runs[j].seeks
                 /\ ~runs'[j].readyCalled]_vars
C13_CompletionAndStall == C13_Completion /\ C13_Stall

\* C14: generateVideo polls the operation until it is done and never after:
\* no poll is requested once a done operation was observed, the call waits
\* or polls only while the observed operation is not done, and it goes on to
\* the result only with a done operation.  It resolves only if the done
\* operation has a response whose first video has a URI and the fetch of
\* that URI succeeded, and it rejects in every other finished outcome.  In
\* EXTEND_VIDEO mode without an input video object it rejects with no
\* request submitted.
Finished == gen.op.done /\ gen.pc # "fetching"
C14_PollAndResult ==
    /\ gen.pollsAfterDone = 0
    /\ gen.pc \in {"waiting", "polling"} => ~gen.op.done
    /\ gen.pc \in {"fetching", "resolved"} => gen.op.done
    /\ (gen.pc = "rejected" /\ ~gen.op.done)
           => gen.cause \in {"noInputVideo", "requestFailed"}
    /\ gen.pc = "resolved"
           => gen.op.response = "uri" /\ gen.fetch = "ok" /\ gen.fetches = 1
    /\ (Finished /\ ~(gen.op.response = "uri" /\ gen.fetch \in {"ok", "bodyError"}))
           => gen.pc = "rejected"
    /\ (Finished /\ gen.op.response # "uri") => gen.fetches = 0
    /\ (gen.mode = "EXTEND_VIDEO" /\ ~gen.hasInput /\ gen.pc # "idle")
           => /\ gen.pc = "rejected"
              /\ gen.submitted = 0 /\ gen.polls = 0 /\ gen.fetches = 0

\* A call resolved after it polled the operation at least twice.
C14_Witness ==
    /\ gen.pc = "resolved"
    /\ gen.polls >= 2
    /\ gen.submitted = 1

\* C15: GIF export busy flag.  isConvertingGif is true exactly while a call
\* of handleDownloadGif on a non-empty videoUrl has not ended: it is set
\* when the call starts and reset on every path on which the conversion
\* ends (GIF produced, error reported by the library, exception during
\* frame extraction); a call on an empty videoUrl leaves it false; and, the
\* controls being unusable while it is true, at most one conversion is in
\* flight: no step taken while the flag is true is a click that starts a
\* call.
C15_FlagFollowsConversion ==
    /\ Len(gif.convs) <= 1
    /\ gif.isConvertingGif <=> Len(gif.convs) = 1
    /\ gif.videoUrl = "" => ~gif.isConvertingGif /\ gif.started = 0
    /\ gif.videoUrl # "" => gif.started = gif.clicks
    /\ gif.lastEnd # "none" => gif.started >= 1
C15_BusyFlag ==
    /\ []C15_FlagFollowsConversion
    /\ [][gif.isConvertingGif
             => gif'.clicks = gif.clicks /\ gif'.started = gif.started]_vars

\* A second conversion is in flight after the first one ended in the catch.
C15_Witness ==
    /\ gif.started = 2
    /\ gif.lastEnd = "exception"
    /\ gif.isConvertingGif
    /\ Len(gif.convs) = 1

====
